---- MODULE Spec2Model ----
(***************************************************************************)
(* A model of edgetest's environment lifecycle (edgetest/core.py), its     *)
(* report aggregator (edgetest/report.py) and the orchestration loop of    *)
(* the command line (edgetest/interface.py).                               *)
(*                                                                         *)
(* Two drivers use the same method steps:                                  *)
(*   Spec     one TestPackage object, driven by an arbitrary caller that   *)
(*            invokes setup(), run_tests() and gen_report() in any order;  *)
(*   SpecCli  the loop of cli() over a validated configuration.            *)
(*                                                                         *)
(* A Python string is a sequence of tokens, a list is a sequence, and an   *)
(* Optional value is None (the empty tuple) or Some(x) (a 1-tuple).        *)
(* The external commands (venv creation, uv, the test process) are the     *)
(* nondeterministic inputs: each either succeeds or fails as the code      *)
(* observes it (a RuntimeError of _run_command or of a hook, an OSError of *)
(* Popen when the interpreter file does not exist).  The installer `uv`    *)
(* itself is taken to be on the PATH and every package directory to exist. *)
(***************************************************************************)
EXTENDS Integers, Sequences, FiniteSets, TLC

VARIABLES
    conf,       \* cli: the validated list of environment records (conf["envs"])
    nosetup,    \* cli flag --nosetup
    notest,     \* cli flag --notest
    driver,     \* position of the caller: "api", or cli()'s position
    printed,    \* Optional: the report cli() echoed
    testers,    \* the TestPackage objects constructed so far
    env_ok,     \* per tester, per directory d: d/.edgetest/<envname> holds a usable environment
    cur,        \* index of the tester whose method is executing (0: gen_report)
    method,     \* the executing (or last) method: "setup", "run_tests", "gen_report"
    pc,         \* position inside the executing method ("idle": control is at the caller)
    args,       \* arguments of the executing setup() call
    cwd,        \* the process working directory, relative to the directory at start
    saved_dir,  \* pushd's local curr_dir
    calls,      \* external calls made by the executing (or last) method invocation
    raised,     \* exception that left the last method invocation, "none" if it returned
    ret,        \* Optional: the value the last method invocation returned
    rows,       \* gen_report's local rows
    rep_i       \* gen_report's loop index over testers

cliVars == <<conf, nosetup, notest, driver, printed>>
reportVars == <<rows, rep_i>>
vars == <<conf, nosetup, notest, driver, printed, testers, env_ok, cur, method, pc,
          args, cwd, saved_dir, calls, raised, ret, rows, rep_i>>

-----------------------------------------------------------------------------
(* Bounds of the model *)

\* longest upgrade / lower / extras / deps list
MaxPkgs == 1
\* most environments in a configuration
MaxEnvs == 2

\* most clauses in the version constraint of a declared requirement
MaxClauses == 2
\* versions are 1..MaxVersion
MaxVersion == 2

-----------------------------------------------------------------------------
(* Python values *)

None == <<>>
Some(x) == <<x>>
IsNone(o) == o = <<>>
Get(o) == o[1]

\* all lists over S of length at most n
Lists(S, n) == UNION {[1..k -> S] : k \in 0..n}

\* `if x:` for an Optional list: neither None nor empty
Truthy(o) == ~IsNone(o) /\ Len(Get(o)) > 0

\* entries of an upgrade list (requirement names, possibly with an extras suffix)
UpgradeStrs == { <<"typing", "_", "extensions">>, <<"Pandas", "[", "perf", "]">> }
\* entries of a lower list: name==version pins
LowerStrs == { <<"numpy", "==", "1.0">>, <<"pandas", "==", "2.0">> }
ExtraStrs == { <<"tests">> }
DepStrs == { <<"scikit-learn", ">=", "1.0">> }
PackageDirs == { ".", "pkg" }
\* exit codes of the test process
ExitCodes == { 0, 1, 2 }
\* what `uv pip list --format json` can report for an environment
InstalledPkgs == { [name |-> <<"typing", "-", "extensions">>, version |-> <<"2.1">>],
                   [name |-> <<"pandas">>, version |-> <<"3.0">>] }

OptLists(S) == {None} \cup {Some(l) : l \in Lists(S, MaxPkgs)}

-----------------------------------------------------------------------------
(* TestPackage.__init__ *)

\* a constructor that only refuses a run with neither list
InitAcceptsEither(upgrade, lower) == ~(IsNone(upgrade) /\ IsNone(lower))

\* the constructor's check: exactly one of upgrade and lower is given
InitAccepts(upgrade, lower) ==
    ~((IsNone(upgrade) /\ IsNone(lower)) \/ (~IsNone(upgrade) /\ ~IsNone(lower)))

\* the object after construction
NewTestPackage(envname, upgrade, lower, package_dir) ==
    [envname |-> envname, upgrade |-> upgrade, lower |-> lower,
     package_dir |-> package_dir, setup_status |-> FALSE, status |-> FALSE]

\* every (upgrade, lower) pair the constructor accepts
CtorModes ==
    {m \in [upgrade : OptLists(UpgradeStrs), lower : OptLists(LowerStrs)] :
        InitAccepts(m.upgrade, m.lower)}

\* the package_dir argument: None by default, or a string (possibly empty)
PackageDirArgs == {None} \cup {Some(d) : d \in PackageDirs \cup {""}}

\* self.package_dir = package_dir or "."
PackageDirOf(o) == IF IsNone(o) \/ Get(o) = "" THEN "." ELSE Get(o)

\* tester = TestPackage(hook, envname, upgrade, lower, package_dir): the
\* caller's name is bound to the new object only when __init__ returns
Construct ==
    /\ driver = "ctor"
    /\ \E upgrade \in OptLists(UpgradeStrs), lower \in OptLists(LowerStrs),
          package_dir \in PackageDirArgs :
        /\ method' = "__init__"
        /\ args' = [upgrade |-> upgrade, lower |-> lower, package_dir |-> package_dir]
        /\ IF InitAccepts(upgrade, lower)
           THEN /\ testers' = <<NewTestPackage(1, upgrade, lower,
                                               PackageDirOf(package_dir))>>
                /\ raised' = "none"
           ELSE /\ testers' = testers
                /\ raised' = "ValueError"
    /\ UNCHANGED <<cliVars, env_ok, cur, pc, cwd, saved_dir, calls, ret, reportVars>>

-----------------------------------------------------------------------------
(* Working directory and environment location *)

\* TestPackage.basedir: Path.cwd() / ".edgetest", evaluated at each use
Basedir(c) == Append(c, ".edgetest")

\* pushd: os.chdir(curr_dir / new_dir)
PushdEnter(c, new_dir) == IF new_dir = "." THEN c ELSE Append(c, new_dir)

\* pushd without try/finally: an exception in the body skips the chdir back
PushdExitNoFinally(saved, c, by_exception) == IF by_exception THEN c ELSE saved

\* pushd: finally: os.chdir(curr_dir), on return and on exception alike
PushdExit(saved, c, by_exception) == saved

\* the directories an environment of this model can lie under
Locations == { <<>>, <<"pkg">> }

\* python_path (hook path_to_python under Basedir(c)) is an existing interpreter
EnvAt(i, c) == c \in DOMAIN env_ok[i] /\ env_ok[i][c]

\* what the file system can hold when a run is constructed: environments left
\* by earlier invocations, under the directories this run can address
InitialEnvs(package_dir) ==
    {f \in [Locations -> BOOLEAN] : package_dir = "." => ~f[<<"pkg">>]}

\* outcomes of an installer command run against python_path (TRUE: exit code 0)
CmdOutcomes(i, c) == IF EnvAt(i, c) THEN BOOLEAN ELSE {FALSE}

Call(op, i, c, arg, ok) ==
    [op |-> op, env |-> i, basedir |-> Basedir(c), arg |-> arg, ok |-> ok]

-----------------------------------------------------------------------------
(* TestPackage.setup *)

RECURSIVE JoinStr(_, _)
\* sep.join(list) on token strings
JoinStr(list, sep) ==
    IF Len(list) = 0 THEN <<>>
    ELSE IF Len(list) = 1 THEN list[1]
    ELSE list[1] \o <<sep>> \o JoinStr(Tail(list), sep)

\* the local package argument: "." with the extras selector appended
LocalPkg(extras) ==
    IF Truthy(extras) THEN <<".", "[">> \o JoinStr(Get(extras), ", ") \o <<"]">>
    ELSE <<".">>

\* a setup that carries on with the next step after a failed one
NextStepIgnoringFailure(step, ok, a) ==
    CASE step = "create" -> IF Truthy(a.deps) THEN "deps" ELSE "local"
      [] step = "deps"   -> "local"
      [] step = "local"  -> "apply"
      [] OTHER           -> "idle"

\* a setup that installs the local package before the additional dependencies
NextStepLocalFirst(step, ok, a) ==
    IF ~ok THEN "idle"
    ELSE CASE step = "create" -> "local"
           [] step = "local"  -> IF Truthy(a.deps) THEN "deps" ELSE "apply"
           [] step = "deps"   -> "apply"
           [] OTHER           -> "idle"

\* where setup() continues after a step: a failed step returns, a successful
\* one goes on to the next (the deps step only `if deps:`)
NextStep(step, ok, a) ==
    IF ~ok THEN "idle"
    ELSE CASE step = "create" -> IF Truthy(a.deps) THEN "deps" ELSE "local"
           [] step = "deps"   -> "local"
           [] step = "local"  -> "apply"
           [] OTHER           -> "idle"

\* setup_status after a step: False on a failure, True after the last step
StatusAfter(step, ok, old) ==
    IF ~ok THEN FALSE ELSE IF step = "apply" THEN TRUE ELSE old

\* the branch of the last step: `if self.upgrade:` ... `else:`
ApplyBranch(t) == IF Truthy(t.upgrade) THEN "update" ELSE "lower"

\* a setup that ignores its skip argument
SetupIgnoresSkip(skip) == FALSE

\* `if skip: self.setup_status = True; return`
SetupReturnsAtOnce(skip) == skip

NoArgs == [extras |-> None, deps |-> None, skip |-> FALSE]

\* a method invocation starts: its locals are fresh
EnterMethod(m, i) ==
    /\ method' = m
    /\ cur' = i
    /\ calls' = <<>>
    /\ ret' = None
    /\ rows' = <<>>

\* entry of setup(extras, deps, skip) on tester i of ts, up to the first external call
SetupEnter(ts, i, extras, deps, skip) ==
    /\ EnterMethod("setup", i)
    /\ args' = [extras |-> extras, deps |-> deps, skip |-> skip]
    /\ raised' = "none"
    /\ rep_i' = 0
    /\ IF SetupReturnsAtOnce(skip)
       THEN /\ testers' = [ts EXCEPT ![i].setup_status = TRUE]
            /\ pc' = "idle"
       ELSE /\ testers' = ts
            /\ pc' = "create"
    /\ UNCHANGED <<cwd, saved_dir>>

\* self.hook.create_environment(basedir, envname, conf); then `with pushd(package_dir)`
CreateEnvironment ==
    /\ pc = "create"
    /\ \E ok \in BOOLEAN :
        /\ calls' = Append(calls, Call("create_environment", cur, cwd, <<>>, ok))
        /\ testers' = [testers EXCEPT ![cur].setup_status = StatusAfter("create", ok, @)]
        /\ env_ok' = IF ok /\ cwd \in Locations
                     THEN [env_ok EXCEPT ![cur][cwd] = TRUE] ELSE env_ok
        /\ pc' = NextStep("create", ok, args)
        /\ IF pc' = "idle"
           THEN UNCHANGED <<cwd, saved_dir>>
           ELSE /\ saved_dir' = cwd
                /\ cwd' = PushdEnter(cwd, testers[cur].package_dir)
    /\ UNCHANGED <<cliVars, cur, method, args, raised, ret, reportVars>>

\* a step inside the pushd block: uv pip install --python=<python_path> ...
InstallStep(step, op, arg) ==
    /\ pc = step
    /\ \E ok \in CmdOutcomes(cur, cwd) :
        /\ calls' = Append(calls, Call(op, cur, cwd, arg, ok))
        /\ testers' = [testers EXCEPT ![cur].setup_status = StatusAfter(step, ok, @)]
        /\ pc' = NextStep(step, ok, args)
        /\ cwd' = IF pc' \in {"deps", "local"} THEN cwd
                  ELSE PushdExit(saved_dir, cwd, FALSE)
    /\ UNCHANGED <<cliVars, env_ok, cur, method, args, saved_dir, raised, ret, reportVars>>

\* uv pip install --python=... <deps>, only `if deps:`
InstallDeps == InstallStep("deps", "pip_install_deps", Get(args.deps))

\* uv pip install --python=... <pkg>
InstallLocal == InstallStep("local", "pip_install_local", <<LocalPkg(args.extras)>>)

\* the last step: run_update if self.upgrade is truthy, else run_install_lower
ApplyUpgradeOrLower ==
    /\ pc = "apply"
    /\ LET t == testers[cur] IN
       IF ApplyBranch(t) = "update"
       THEN \E ok \in CmdOutcomes(cur, cwd) :
            /\ calls' = Append(calls, Call("run_update", cur, cwd, Get(t.upgrade), ok))
            /\ testers' = [testers EXCEPT ![cur].setup_status = StatusAfter("apply", ok, @)]
            /\ pc' = NextStep("apply", ok, args)
            /\ UNCHANGED raised
       ELSE IF IsNone(t.lower)
       THEN \* ", ".join(self.lower) with self.lower None
            /\ raised' = "TypeError"
            /\ pc' = "idle"
            /\ UNCHANGED <<calls, testers>>
       ELSE \E ok \in CmdOutcomes(cur, cwd) :
            /\ calls' = Append(calls, Call("run_install_lower", cur, cwd, Get(t.lower), ok))
            /\ testers' = [testers EXCEPT ![cur].setup_status = StatusAfter("apply", ok, @)]
            /\ pc' = NextStep("apply", ok, args)
            /\ UNCHANGED raised
    /\ UNCHANGED <<cliVars, env_ok, cur, method, args, cwd, saved_dir, ret, reportVars>>

-----------------------------------------------------------------------------
(* TestPackage.run_tests *)

\* schema default of an environment's command
DefaultCommand == <<"pytest">>

\* a run_tests without its guard
RunTestsAlways(t) == TRUE

\* `if not self.setup_status: raise RuntimeError`
RunTestsAllowed(t) == t.setup_status

\* self.status = bool(popen.returncode == 0)
StatusOf(returncode) == returncode = 0

\* entry of run_tests(command) on tester i, up to the Popen
RunTestsEnter(i) ==
    /\ EnterMethod("run_tests", i)
    /\ IF ~RunTestsAllowed(testers[i])
       THEN /\ raised' = "RuntimeError"
            /\ pc' = "idle"
            /\ UNCHANGED <<cwd, saved_dir>>
       ELSE /\ raised' = "none"
            /\ pc' = "popen"
            /\ saved_dir' = cwd
            /\ cwd' = PushdEnter(cwd, testers[i].package_dir)
    /\ rep_i' = 0
    /\ UNCHANGED <<testers, env_ok, args>>

\* Popen((python_path, "-m", command)) and communicate(), inside the pushd block
PopenTests ==
    /\ pc = "popen"
    /\ \/ \* the interpreter file is missing: Popen raises, no process runs
          /\ ~EnvAt(cur, cwd)
          /\ raised' = "FileNotFoundError"
          /\ cwd' = PushdExit(saved_dir, cwd, TRUE)
          /\ UNCHANGED <<calls, testers, ret>>
       \/ /\ EnvAt(cur, cwd)
          /\ \E returncode \in ExitCodes :
              /\ calls' = Append(calls, Call("popen_tests", cur, cwd,
                                             <<DefaultCommand, returncode>>,
                                             returncode = 0))
              /\ testers' = [testers EXCEPT ![cur].status = StatusOf(returncode)]
              /\ ret' = Some(returncode)
          /\ cwd' = PushdExit(saved_dir, cwd, FALSE)
          /\ UNCHANGED raised
    /\ pc' = "idle"
    /\ UNCHANGED <<cliVars, env_ok, cur, method, args, saved_dir, reportVars>>

-----------------------------------------------------------------------------
(* String helpers of the queries *)

RECURSIVE Split(_, _)
\* str.split(sep): the pieces between the occurrences of the token sep
Split(str, sep) ==
    IF Len(str) = 0 THEN << <<>> >>
    ELSE IF Head(str) = sep THEN << <<>> >> \o Split(Tail(str), sep)
    ELSE LET rest == Split(Tail(str), sep)
         IN  << <<Head(str)>> \o rest[1] >> \o Tail(rest)

\* one token after .replace("_", "-").lower()
\* a normalisation that replaces '_' and keeps the letter case
NormTokKeepsCase(tok) == IF tok = "_" THEN "-" ELSE tok

\* tok.replace("_", "-").lower()
NormTok(tok) ==
    CASE tok = "_"      -> "-"
      [] tok = "Pandas" -> "pandas"
      [] tok = "NumPy"  -> "numpy"
      [] tok = "Scikit" -> "scikit"
      [] OTHER          -> tok

Normalise(str) == [k \in 1..Len(str) |-> NormTok(str[k])]

\* a membership test that compares the strings as they are
IsinExact(a, vals) == \E k \in 1..Len(vals) : a = vals[k]

\* _isin_case_dashhyphen_ins(a, vals)
IsinCaseDashhyphenIns(a, vals) ==
    \E k \in 1..Len(vals) : Normalise(a) = Normalise(vals[k])

-----------------------------------------------------------------------------
(* TestPackage.upgraded_packages, TestPackage.lowered_packages *)

\* every listing `uv pip list` can print: installed packages, each once
PipListings ==
    {l \in UNION {[1..k -> InstalledPkgs] : k \in 0..Cardinality(InstalledPkgs)} :
        \A a, b \in 1..Len(l) : a # b => l[a] # l[b]}

\* upgraded_packages() given the listing the environment reports
UpgradedPackages(t, listing) ==
    IF IsNone(t.upgrade) THEN <<>>
    ELSE LET up == Get(t.upgrade)
             upgrade_wo_extras == [k \in 1..Len(up) |-> Split(up[k], "[")[1]]
             Keep(pkg) == IsinCaseDashhyphenIns(pkg.name, upgrade_wo_extras)
         IN  SelectSeq(listing, Keep)

\* lowered_packages() indexes pkg_info[1]: a stored string without "==" has none
LoweredPackagesRaises(t) ==
    /\ ~IsNone(t.lower)
    /\ \E k \in 1..Len(Get(t.lower)) : Len(Split(Get(t.lower)[k], "==")) < 2

\* a lowered_packages that takes the version for the name
LoweredPackagesSwapped(t) ==
    IF IsNone(t.lower) THEN <<>>
    ELSE LET low == Get(t.lower)
         IN  [k \in 1..Len(low) |->
                 [name |-> Split(low[k], "==")[2], version |-> Split(low[k], "==")[1]]]

\* lowered_packages()
LoweredPackages(t) ==
    IF IsNone(t.lower) THEN <<>>
    ELSE LET low == Get(t.lower)
         IN  [k \in 1..Len(low) |->
                 [name |-> Split(low[k], "==")[1], version |-> Split(low[k], "==")[2]]]

\* a call of upgraded_packages() on tester i
QueryUpgraded(i) ==
    /\ method' = "upgraded_packages"
    /\ cur' = i
    /\ LET t == testers[i] IN
       IF IsNone(t.upgrade)
       THEN /\ calls' = <<>>
            /\ ret' = Some(<<>>)
            /\ raised' = "none"
       ELSE IF ~EnvAt(i, cwd)
       THEN \* uv pip list against a missing interpreter: _run_command raises
            /\ calls' = <<Call("pip_list", i, cwd, <<>>, FALSE)>>
            /\ ret' = None
            /\ raised' = "RuntimeError"
       ELSE \E listing \in PipListings :
            /\ calls' = <<Call("pip_list", i, cwd, listing, TRUE)>>
            /\ ret' = Some(UpgradedPackages(t, listing))
            /\ raised' = "none"
    /\ pc' = "idle"
    /\ rows' = <<>>
    /\ rep_i' = 0
    /\ UNCHANGED <<testers, env_ok, args, cwd, saved_dir>>

\* a call of lowered_packages() on tester i
QueryLowered(i) ==
    /\ method' = "lowered_packages"
    /\ cur' = i
    /\ calls' = <<>>
    /\ IF LoweredPackagesRaises(testers[i])
       THEN /\ ret' = None
            /\ raised' = "IndexError"
       ELSE /\ ret' = Some(LoweredPackages(testers[i]))
            /\ raised' = "none"
    /\ pc' = "idle"
    /\ rows' = <<>>
    /\ rep_i' = 0
    /\ UNCHANGED <<testers, env_ok, args, cwd, saved_dir>>

-----------------------------------------------------------------------------
(* report.gen_report *)

VALID_OUTPUTS == {"rst", "github"}
OutputTypes == {"rst", "github", "bad"}

\* rows that carry the package name in both package columns
RowsOfBothColumns(t, upgraded, lowered) ==
    [k \in 1..Len(upgraded) |->
        [env |-> t.envname, setup |-> t.setup_status, passing |-> t.status,
         upgraded |-> upgraded[k].name, lowered |-> upgraded[k].name,
         version |-> upgraded[k].version]]
    \o
    [k \in 1..Len(lowered) |->
        [env |-> t.envname, setup |-> t.setup_status, passing |-> t.status,
         upgraded |-> lowered[k].name, lowered |-> lowered[k].name,
         version |-> lowered[k].version]]

\* the rows gen_report appends for one environment
RowsOf(t, upgraded, lowered) ==
    [k \in 1..Len(upgraded) |->
        [env |-> t.envname, setup |-> t.setup_status, passing |-> t.status,
         upgraded |-> upgraded[k].name, lowered |-> <<>>,
         version |-> upgraded[k].version]]
    \o
    [k \in 1..Len(lowered) |->
        [env |-> t.envname, setup |-> t.setup_status, passing |-> t.status,
         upgraded |-> <<>>, lowered |-> lowered[k].name,
         version |-> lowered[k].version]]

\* a gen_report that takes any output type
AcceptsAnyOutput(output_type) == TRUE

\* `output_type in VALID_OUTPUTS`
IsValidOutput(output_type) == output_type \in VALID_OUTPUTS

\* the message of the ValueError: f"Invalid output_type provided: {output_type}"
InvalidOutputMessage(output_type) == <<"Invalid output_type provided: ", output_type>>

\* entry of gen_report(testers, output_type)
GenReportEnter(output_type) ==
    /\ EnterMethod("gen_report", 0)
    /\ args' = [output_type |-> output_type]
    /\ IF ~IsValidOutput(output_type)
       THEN /\ raised' = "ValueError"
            /\ pc' = "idle"
            /\ rep_i' = 0
       ELSE /\ raised' = "none"
            /\ pc' = "report_env"
            /\ rep_i' = 1
    /\ UNCHANGED <<testers, env_ok, cwd, saved_dir>>

\* one iteration of `for env in testers`
GenReportEnv ==
    /\ pc = "report_env"
    /\ rep_i <= Len(testers)
    /\ LET t == testers[rep_i] IN
       \/ \* upgraded_packages(): uv pip list against a missing interpreter
          /\ ~IsNone(t.upgrade)
          /\ ~EnvAt(rep_i, cwd)
          /\ calls' = Append(calls, Call("pip_list", rep_i, cwd, <<>>, FALSE))
          /\ raised' = "RuntimeError"
          /\ pc' = "idle"
          /\ UNCHANGED <<rows, rep_i>>
       \/ \* upgraded_packages() of an upgrade-mode run
          /\ ~IsNone(t.upgrade)
          /\ EnvAt(rep_i, cwd)
          /\ \E listing \in PipListings :
              /\ rows' = rows \o RowsOf(t, UpgradedPackages(t, listing), LoweredPackages(t))
              /\ calls' = Append(calls, Call("pip_list", rep_i, cwd, listing, TRUE))
          /\ rep_i' = rep_i + 1
          /\ UNCHANGED <<raised, pc>>
       \/ \* a lower-mode run: no query of the environment
          /\ IsNone(t.upgrade)
          /\ IF LoweredPackagesRaises(t)
             THEN /\ raised' = "IndexError"
                  /\ pc' = "idle"
                  /\ UNCHANGED <<rows, rep_i>>
             ELSE /\ rows' = rows \o RowsOf(t, UpgradedPackages(t, <<>>), LoweredPackages(t))
                  /\ rep_i' = rep_i + 1
                  /\ UNCHANGED <<raised, pc>>
          /\ UNCHANGED calls
    /\ UNCHANGED <<cliVars, testers, env_ok, cur, method, args, cwd, saved_dir, ret>>

\* return tabulate(rows, ...)
GenReportReturn ==
    /\ pc = "report_env"
    /\ rep_i > Len(testers)
    /\ ret' = Some(rows)
    /\ pc' = "idle"
    /\ UNCHANGED <<cliVars, testers, env_ok, cur, method, args, cwd, saved_dir, calls,
                   raised, rows, rep_i>>

-----------------------------------------------------------------------------
(* A caller of one TestPackage object *)

ApiSetup ==
    /\ driver = "api"
    /\ pc = "idle"
    /\ \E extras \in OptLists(ExtraStrs), deps \in OptLists(DepStrs), skip \in BOOLEAN :
        SetupEnter(testers, 1, extras, deps, skip)
    /\ UNCHANGED <<cliVars, env_ok>>

ApiRunTests ==
    /\ driver = "api"
    /\ pc = "idle"
    /\ RunTestsEnter(1)
    /\ UNCHANGED cliVars

ApiGenReport ==
    /\ driver = "api"
    /\ pc = "idle"
    /\ \E output_type \in OutputTypes : GenReportEnter(output_type)
    /\ UNCHANGED cliVars

ApiUpgradedPackages ==
    /\ driver = "api"
    /\ pc = "idle"
    /\ QueryUpgraded(1)
    /\ UNCHANGED cliVars

ApiLoweredPackages ==
    /\ driver = "api"
    /\ pc = "idle"
    /\ QueryLowered(1)
    /\ UNCHANGED cliVars

-----------------------------------------------------------------------------
(* interface.cli: the orchestration loop *)

\* the environment records the schema validation lets through: exactly one of
\* upgrade and lower (required, excludes), extras and deps None by default
EnvRecs ==
    {e \in [upgrade : OptLists(UpgradeStrs), lower : OptLists(LowerStrs),
            extras : OptLists(ExtraStrs), deps : OptLists(DepStrs),
            package_dir : PackageDirs] :
        InitAccepts(e.upgrade, e.lower)}

\* configurations of at most MaxEnvs environments; extras and deps are the
\* options shared by the environments (the [edgetest] section, --extras, --deps)
Confs ==
    {c \in UNION {[1..n -> EnvRecs] : n \in 0..MaxEnvs} :
        \A a, b \in 1..Len(c) : c[a].extras = c[b].extras /\ c[a].deps = c[b].deps}

\* --nosetup is for environments that exist already ("a pre-made environment
\* has already been created"): every interpreter the run addresses is there
SkipPrecondition(exists, package_dir) ==
    exists[<<>>] /\ (package_dir # "." => exists[<<package_dir>>])

\* `for env in conf["envs"]`: construct the TestPackage and call setup()
CliNextEnv ==
    /\ driver = "loop"
    /\ pc = "idle"
    /\ Len(testers) < Len(conf)
    /\ LET i == Len(testers) + 1
           env == conf[i]
           t == NewTestPackage(i, env.upgrade, env.lower, env.package_dir)
       IN  /\ SetupEnter(Append(testers, t), i, env.extras, env.deps, nosetup)
           /\ \E exists \in InitialEnvs(env.package_dir) :
                /\ nosetup => SkipPrecondition(exists, env.package_dir)
                /\ env_ok' = Append(env_ok, exists)
    /\ driver' = "setup"
    /\ UNCHANGED <<conf, nosetup, notest, printed>>

\* a loop that skips the tests only on --notest
SkipsTestsOnFlagOnly(notest_flag, t) == notest_flag

\* `if notest or not testers[-1].setup_status:` skip the tests
SkipsTests(notest_flag, t) == notest_flag \/ ~t.setup_status

\* after setup(): skip the tests or call run_tests(env["command"])
CliAfterSetup ==
    /\ driver = "setup"
    /\ pc = "idle"
    /\ IF raised # "none"
       THEN /\ driver' = "raised"
            /\ UNCHANGED <<testers, env_ok, cur, method, pc, args, cwd, saved_dir, calls,
                           raised, ret, rows, rep_i>>
       ELSE IF SkipsTests(notest, testers[Len(testers)])
       THEN /\ driver' = "loop"
            /\ UNCHANGED <<testers, env_ok, cur, method, pc, args, cwd, saved_dir, calls,
                           raised, ret, rows, rep_i>>
       ELSE /\ driver' = "tests"
            /\ RunTestsEnter(Len(testers))
    /\ UNCHANGED <<conf, nosetup, notest, printed>>

\* run_tests() is over: an exception leaves cli(), a return goes round the loop
CliAfterTests ==
    /\ driver = "tests"
    /\ pc = "idle"
    /\ driver' = IF raised # "none" THEN "raised" ELSE "loop"
    /\ UNCHANGED <<conf, nosetup, notest, printed, testers, env_ok, cur, method, pc, args,
                   cwd, saved_dir, calls, raised, ret, rows, rep_i>>

\* report = gen_report(testers)
CliGenReport ==
    /\ driver = "loop"
    /\ pc = "idle"
    /\ Len(testers) = Len(conf)
    /\ GenReportEnter("rst")
    /\ driver' = "report"
    /\ UNCHANGED <<conf, nosetup, notest, printed>>

\* click.echo(report), unless gen_report raised
CliEcho ==
    /\ driver = "report"
    /\ pc = "idle"
    /\ IF raised # "none"
       THEN driver' = "raised" /\ UNCHANGED printed
       ELSE driver' = "done" /\ printed' = ret
    /\ UNCHANGED <<conf, nosetup, notest, testers, env_ok, cur, method, pc, args,
                   cwd, saved_dir, calls, raised, ret, rows, rep_i>>

MethodSteps ==
    \/ CreateEnvironment
    \/ InstallDeps
    \/ InstallLocal
    \/ ApplyUpgradeOrLower
    \/ PopenTests
    \/ GenReportEnv
    \/ GenReportReturn

Init ==
    /\ conf = <<>>
    /\ nosetup = FALSE
    /\ notest = FALSE
    /\ driver = "api"
    /\ printed = None
    /\ \E m \in CtorModes, d \in PackageDirs :
        /\ testers = <<NewTestPackage(1, m.upgrade, m.lower, d)>>
        /\ \E exists \in InitialEnvs(d) : env_ok = <<exists>>
    /\ cur = 0
    /\ method = "none"
    /\ pc = "idle"
    /\ args = NoArgs
    /\ cwd = <<>>
    /\ saved_dir = <<>>
    /\ calls = <<>>
    /\ raised = "none"
    /\ ret = None
    /\ rows = <<>>
    /\ rep_i = 0

Next ==
    \/ ApiSetup
    \/ ApiRunTests
    \/ ApiGenReport
    \/ ApiUpgradedPackages
    \/ ApiLoweredPackages
    \/ MethodSteps

Spec == Init /\ [][Next]_vars

-----------------------------------------------------------------------------
(* utils.upgrade_requirements *)

\* A requirement is a name with a specifier set; a clause of the set is an
\* operator with a version.  packaging keeps the clauses in a frozenset, so
\* list(pkg.specifier) yields them in an arbitrary order without repetition:
\* a requirement is given here by that order.
Versions == 1..MaxVersion
Operators == {"<=", "<", "==", ">=", ">", "!="}
Clauses == [op : Operators, version : Versions]

\* list(pkg.specifier): the clauses of a specifier set, in some order
ClauseOrders ==
    {l \in Lists(Clauses, MaxClauses) : \A a, b \in 1..Len(l) : a # b => l[a] # l[b]}

\* SpecifierSet(",".join(str(spec) for spec in new_spec)): a set of clauses
SpecifierSet(new_spec) == {new_spec[k] : k \in 1..Len(new_spec)}

\* a rewrite that keeps a `<=` clause as it is
CeilingKept(value, v) == value

\* Specifier(f"<={upgrades[pkg.name]}")
CeilingClause(value, v) == [op |-> "<=", version |-> v]

\* a rewrite that keeps a `<` clause as it is
StrictKept(value) == value

\* Specifier(f"!={value.version}")
ExclusionClause(value) == [op |-> "!=", version |-> value.version]

\* Specifier(...) & Specifier(...): packaging's Specifier defines no `&`
\* (only SpecifierSet does), so the expression raises TypeError; None stands
\* for the raise
SpecifierAnd(a, b) == None

RECURSIVE RewriteFrom(_, _, _, _)
\* `for index, value in enumerate(specs)` from index on; the result is
\* new_spec after the loop, or the exception that left it
RewriteFrom(specs, new_spec, index, v) ==
    IF index > Len(specs) THEN [raised |-> "none", new_spec |-> new_spec]
    ELSE LET value == specs[index] IN
         CASE value.op = "<=" ->
                RewriteFrom(specs, [new_spec EXCEPT ![index] = CeilingClause(value, v)],
                            index + 1, v)
           [] value.op = "<" ->
                RewriteFrom(specs,
                            Append([new_spec EXCEPT ![index] = ExclusionClause(value)],
                                   CeilingClause(value, v)),
                            index + 1, v)
           [] value.op = "==" ->
                LET both == SpecifierAnd([op |-> ">=", version |-> value.version],
                                         CeilingClause(value, v))
                IN  IF IsNone(both)
                    THEN [raised |-> "TypeError", new_spec |-> new_spec]
                    ELSE [raised |-> "none", new_spec |-> Get(both)]
           [] OTHER -> RewriteFrom(specs, new_spec, index + 1, v)

\* upgrades = {pkg["name"]: pkg["version"] for pkg in upgraded_packages}:
\* the names listed, and for a name the version of its last entry
UpgradedNames(upgraded_packages) ==
    {upgraded_packages[k].name : k \in 1..Len(upgraded_packages)}

UpgradeVersion(upgraded_packages, name) ==
    LET last == CHOOSE k \in 1..Len(upgraded_packages) :
                    /\ upgraded_packages[k].name = name
                    /\ \A j \in (k + 1)..Len(upgraded_packages) :
                          upgraded_packages[j].name # name
    IN  upgraded_packages[last].version

\* the body of `for pkg in pkgs` for one requirement
UpgradeOne(pkg, upgraded_packages) ==
    IF pkg.name \notin UpgradedNames(upgraded_packages)
    THEN [raised |-> "none", name |-> pkg.name, specifier |-> SpecifierSet(pkg.specs)]
    ELSE LET out == RewriteFrom(pkg.specs, pkg.specs, 1,
                                UpgradeVersion(upgraded_packages, pkg.name))
         IN  [raised |-> out.raised, name |-> pkg.name,
              specifier |-> SpecifierSet(out.new_spec)]

\* upgrade_requirements(fname_or_buf, upgraded_packages): the requirements
\* it returns, one per line, or the exception of the first rewrite that raises
UpgradeRequirements(pkgs, upgraded_packages) ==
    LET outs == [k \in 1..Len(pkgs) |-> UpgradeOne(pkgs[k], upgraded_packages)]
    IN  IF \E k \in 1..Len(pkgs) : outs[k].raised # "none"
        THEN [raised |-> outs[CHOOSE k \in 1..Len(pkgs) :
                                /\ outs[k].raised # "none"
                                /\ \A j \in 1..(k - 1) : outs[j].raised = "none"].raised,
              lines |-> <<>>]
        ELSE [raised |-> "none",
              lines |-> [k \in 1..Len(pkgs) |->
                            [name |-> outs[k].name, specifier |-> outs[k].specifier]]]

\* the requirement files of the model: a requirement on pandas with any
\* constraint, alone or next to a requirement on numpy, and a requirement
\* written "Pandas" with one clause
OtherRequirement == [name |-> <<"numpy">>, specs |-> << [op |-> ">=", version |-> 1] >>]

RequirementFiles ==
    UNION {{ <<r>>, <<r, OtherRequirement>>, <<OtherRequirement, r>> } :
            r \in [name : {<<"pandas">>}, specs : ClauseOrders]}
        \cup {<<r>> : r \in [name : {<<"Pandas">>},
                              specs : {o \in ClauseOrders : Len(o) = 1}]}

\* the arguments: what upgraded_packages() can hand over, with any versions
UpgradedLists ==
    Lists([name : {<<"pandas">>, <<"numpy">>}, version : Versions], MaxPkgs)

\* the call upgrade_requirements(args.pkgs, args.upgraded_packages)
CallUpgradeRequirements ==
    /\ driver = "fn"
    /\ method = "none"
    /\ method' = "upgrade_requirements"
    /\ LET out == UpgradeRequirements(args.pkgs, args.upgraded_packages) IN
         /\ raised' = out.raised
         /\ ret' = IF out.raised = "none" THEN Some(out.lines) ELSE None
    /\ UNCHANGED <<cliVars, testers, env_ok, cur, pc, args, cwd, saved_dir, calls,
                   reportVars>>

\* a caller of upgrade_requirements with arbitrary arguments
InitUpgrade ==
    /\ conf = <<>>
    /\ nosetup = FALSE
    /\ notest = FALSE
    /\ driver = "fn"
    /\ printed = None
    /\ testers = <<>>
    /\ env_ok = <<>>
    /\ cur = 0
    /\ method = "none"
    /\ pc = "idle"
    /\ args \in [pkgs : RequirementFiles, upgraded_packages : UpgradedLists]
    /\ cwd = <<>>
    /\ saved_dir = <<>>
    /\ calls = <<>>
    /\ raised = "none"
    /\ ret = None
    /\ rows = <<>>
    /\ rep_i = 0

NextUpgrade == CallUpgradeRequirements

SpecUpgrade == InitUpgrade /\ [][NextUpgrade]_vars

-----------------------------------------------------------------------------
(* interface.cli: the export after the report *)

\* an export that only looks at the flag
ExportsOnFlag(export, t) == export

\* `if export and testers[-1].status:`
ExportsAllowed(export, t) == export /\ t.status

\* the requirement lines of the project: the packages the environments install
ManifestLines ==
    << [name |-> <<"pandas">>, specs |-> << [op |-> "<=", version |-> <<"2.0">>] >>],
       [name |-> <<"typing", "-", "extensions">>,
        specs |-> << [op |-> ">=", version |-> <<"1.0">>] >>] >>

\* the same with pandas pinned
PinnedLines ==
    << [name |-> <<"pandas">>, specs |-> << [op |-> "==", version |-> <<"2.0">>] >>] >>

\* the --config file: its name, and the dependencies it declares (None when
\* it has no install_requires / project.dependencies); the extras sections
\* are rewritten by the same function and are left out
ConfigFiles ==
    [name : {"setup.cfg", "pyproject.toml"}, dependencies : {None, Some(ManifestLines)}]
        \cup {[name |-> "edgetest.toml", dependencies |-> None]}

\* the --requirements file
RequirementsFiles == {ManifestLines, PinnedLines}

\* upgrade_setup_cfg / upgrade_pyproject_toml: the dependencies of the
\* configuration file after the rewrite, None when it declares none
UpgradeConfig(config, upgraded_packages) ==
    IF IsNone(config.dependencies)
    THEN [raised |-> "none", dependencies |-> None]
    ELSE LET out == UpgradeRequirements(Get(config.dependencies), upgraded_packages)
         IN  [raised |-> out.raised, dependencies |-> Some(out.lines)]

\* open(file, "w") and write: the target and the text written
WriteFile(i, c, target, text) == Call("write", i, c, <<target, text>>, TRUE)

\* `if export and testers[-1].status:` after the report was echoed
CliExport ==
    /\ driver = "done"
    /\ \E export \in BOOLEAN :
        /\ args' = [export |-> export]
        /\ IF export /\ Len(testers) = 0
           THEN \* testers[-1] of an empty list
                raised' = "IndexError" /\ driver' = "raised"
           ELSE /\ UNCHANGED raised
                /\ driver' = IF ExportsAllowed(export, testers[Len(testers)])
                              THEN "export" ELSE "exit"
    /\ UNCHANGED <<conf, nosetup, notest, printed, testers, env_ok, cur, method, pc,
                   cwd, saved_dir, calls, ret, rows, rep_i>>

\* testers[-1].upgraded_packages()
CliExportQuery ==
    /\ driver = "export"
    /\ QueryUpgraded(Len(testers))
    /\ driver' = "write"
    /\ UNCHANGED <<conf, nosetup, notest, printed>>

\* the three branches on the configuration file's name, each ending in writes
CliWrite ==
    /\ driver = "write"
    /\ IF raised # "none"
       THEN /\ driver' = "raised"
            /\ UNCHANGED <<args, calls, raised>>
       ELSE \E config \in ConfigFiles, requirements \in RequirementsFiles :
            LET upgraded == Get(ret)
                i == Len(testers)
                parser == UpgradeConfig(config, upgraded)
                out == UpgradeRequirements(requirements, upgraded)
                byconfig == config.name \in {"setup.cfg", "pyproject.toml"}
            IN  /\ args' = [export |-> TRUE, config |-> config, requirements |-> requirements]
                /\ IF byconfig /\ parser.raised # "none"
                   THEN /\ raised' = parser.raised
                        /\ driver' = "raised"
                        /\ UNCHANGED calls
                   ELSE IF byconfig /\ ~IsNone(parser.dependencies)
                   THEN /\ calls' = Append(calls, WriteFile(i, cwd, "config", parser.dependencies))
                        /\ driver' = "exit"
                        /\ UNCHANGED raised
                   ELSE LET first == IF byconfig
                                     THEN Append(calls, WriteFile(i, cwd, "config", None))
                                     ELSE calls
                        IN  IF out.raised # "none"
                            THEN /\ raised' = out.raised
                                 /\ driver' = "raised"
                                 /\ calls' = first
                            ELSE /\ calls' = Append(first, WriteFile(i, cwd, "requirements",
                                                                     Some(out.lines)))
                                 /\ driver' = "exit"
                                 /\ UNCHANGED raised
    /\ UNCHANGED <<conf, nosetup, notest, printed, testers, env_ok, cur, method, pc,
                   cwd, saved_dir, ret, rows, rep_i>>

InitCli ==
    /\ conf \in Confs
    /\ nosetup \in BOOLEAN
    /\ notest \in BOOLEAN
    /\ driver = "loop"
    /\ printed = None
    /\ testers = <<>>
    /\ env_ok = <<>>
    /\ cur = 0
    /\ method = "none"
    /\ pc = "idle"
    /\ args = NoArgs
    /\ cwd = <<>>
    /\ saved_dir = <<>>
    /\ calls = <<>>
    /\ raised = "none"
    /\ ret = None
    /\ rows = <<>>
    /\ rep_i = 0

NextCli ==
    \/ CliNextEnv
    \/ CliAfterSetup
    \/ CliAfterTests
    \/ CliGenReport
    \/ CliEcho
    \/ CliExport
    \/ CliExportQuery
    \/ CliWrite
    \/ MethodSteps

SpecCli == InitCli /\ [][NextCli]_vars

-----------------------------------------------------------------------------
(* utils.get_lower_bounds *)

\* pkg.name + (f"[{','.join(pkg.extras)}]" if pkg.extras else "")
FullName(pkg) ==
    IF Truthy(pkg.extras)
    THEN pkg.name \o <<"[">> \o JoinStr(Get(pkg.extras), ",") \o <<"]">>
    ELSE pkg.name

RECURSIVE FirstLowerBound(_)
\* `for spec in pkg.specifier: if spec.operator == ">=": ...; break`:
\* the version of the first `>=` clause in iteration order, None without one
FirstLowerBound(specs) ==
    IF Len(specs) = 0 THEN None
    ELSE IF Head(specs).op = ">=" THEN Some(Head(specs).version)
    ELSE FirstLowerBound(Tail(specs))

\* d[key] = value on an insertion-ordered dict (a list of items): a present
\* key keeps its place and takes the value, a new key goes to the end
DictSet(d, key, value) ==
    IF \E k \in 1..Len(d) : d[k].key = key
    THEN [k \in 1..Len(d) |-> IF d[k].key = key THEN [key |-> key, value |-> value]
                                ELSE d[k]]
    ELSE Append(d, [key |-> key, value |-> value])

RECURSIVE AllLowerBounds(_, _)
\* the first loop: all_lower_bounds after `for pkg in pkgs`
AllLowerBounds(pkgs, d) ==
    IF Len(pkgs) = 0 THEN d
    ELSE LET bound == FirstLowerBound(Head(pkgs).specs)
         IN  AllLowerBounds(Tail(pkgs),
                            IF IsNone(bound) THEN d
                            ELSE DictSet(d, FullName(Head(pkgs)), bound))

\* a second loop that writes a line for every bound it has
EmitsAll(pkg_name, lower) == TRUE

\* `_isin_case_dashhyphen_ins(pkg_name, lower.split("\n"))`
EmitsLine(pkg_name, lower) == IsinCaseDashhyphenIns(pkg_name, lower)

RECURSIVE LowerWithBounds(_, _, _)
\* the second loop over all_lower_bounds.items(): the lines
\* f"{pkg_name}=={lower_bound}" and the warnings logged
LowerWithBounds(items, lower, acc) ==
    IF Len(items) = 0 THEN acc
    ELSE LET pkg_name == Head(items).key
             lower_bound == Head(items).value
         IN  LowerWithBounds(Tail(items), lower,
                IF IsNone(lower_bound)
                THEN [acc EXCEPT !.warnings = Append(@, pkg_name)]
                ELSE IF EmitsLine(pkg_name, lower)
                THEN [acc EXCEPT !.lines =
                          Append(@, [name |-> pkg_name, version |-> Get(lower_bound)])]
                ELSE acc)

\* get_lower_bounds(requirements, lower)
GetLowerBounds(requirements, lower) ==
    LowerWithBounds(AllLowerBounds(requirements, <<>>), lower,
                    [lines |-> <<>>, warnings |-> <<>>])

\* the declared requirements of the model: names that differ from the
\* requested ones in case and in '_' against '-', with and without extras,
\* with constraints of `>=` and `<=` clauses in any iteration order
BoundClauseOrders == {l \in ClauseOrders : \A k \in 1..Len(l) : l[k].op \in {">=", "<="}}

DeclaredNames ==
    { [name |-> <<"pandas">>, extras |-> None],
      [name |-> <<"pandas">>, extras |-> Some(<< <<"perf">> >>)],
      [name |-> <<"Scikit", "_", "learn">>, extras |-> None] }

FirstRequirements ==
    {[name |-> n.name, extras |-> n.extras, specs |-> o] :
        n \in DeclaredNames, o \in BoundClauseOrders}

\* a second requirement has at most one clause, a `>=`
SecondRequirements ==
    {r \in FirstRequirements : Len(r.specs) <= 1 /\ \A k \in 1..Len(r.specs) : r.specs[k].op = ">="}

RequirementLists ==
    {<<r>> : r \in FirstRequirements}
        \cup {<<r, q>> : r \in FirstRequirements, q \in SecondRequirements}

\* the names of lower.split("\n")
RequestedNames ==
    { <<"Pandas">>, <<"pandas", "[", "perf", "]">>, <<"scikit", "-", "learn">>,
      <<"numpy">> }

\* the call get_lower_bounds(args.requirements, args.lower)
CallGetLowerBounds ==
    /\ driver = "fn"
    /\ method = "none"
    /\ method' = "get_lower_bounds"
    /\ LET out == GetLowerBounds(args.requirements, args.lower) IN
         /\ ret' = Some(out.lines)
         /\ calls' = [k \in 1..Len(out.warnings) |->
                          [op |-> "LOG.warning", arg |-> out.warnings[k]]]
    /\ raised' = "none"
    /\ UNCHANGED <<cliVars, testers, env_ok, cur, pc, args, cwd, saved_dir, reportVars>>

\* a caller of get_lower_bounds with arbitrary arguments
InitLower ==
    /\ conf = <<>>
    /\ nosetup = FALSE
    /\ notest = FALSE
    /\ driver = "fn"
    /\ printed = None
    /\ testers = <<>>
    /\ env_ok = <<>>
    /\ cur = 0
    /\ method = "none"
    /\ pc = "idle"
    /\ args \in [requirements : RequirementLists, lower : Lists(RequestedNames, MaxPkgs)]
    /\ cwd = <<>>
    /\ saved_dir = <<>>
    /\ calls = <<>>
    /\ raised = "none"
    /\ ret = None
    /\ rows = <<>>
    /\ rep_i = 0

NextLower == CallGetLowerBounds

SpecLower == InitLower /\ [][NextLower]_vars

-----------------------------------------------------------------------------
(* Driver of _isin_case_dashhyphen_ins *)

MaxVals == 2

\* names that differ in case, in '-' against '_', in another character, and
\* the concatenation of two of them
IsinNames ==
    { <<"pandas">>, <<"Pandas">>, <<"panda$">>,
      <<"scikit", "-", "learn">>, <<"Scikit", "_", "learn">>,
      <<"scikit", "-", "le4rn">>,
      <<"pandas", "scikit", "-", "learn">> }

\* the call _isin_case_dashhyphen_ins(args.a, args.vals)
CallIsin ==
    /\ driver = "fn"
    /\ method = "none"
    /\ method' = "_isin_case_dashhyphen_ins"
    /\ ret' = Some(IsinCaseDashhyphenIns(args.a, args.vals))
    /\ raised' = "none"
    /\ UNCHANGED <<cliVars, testers, env_ok, cur, pc, args, cwd, saved_dir, calls, reportVars>>

\* a caller of _isin_case_dashhyphen_ins with arbitrary arguments
InitIsin ==
    /\ conf = <<>>
    /\ nosetup = FALSE
    /\ notest = FALSE
    /\ driver = "fn"
    /\ printed = None
    /\ testers = <<>>
    /\ env_ok = <<>>
    /\ cur = 0
    /\ method = "none"
    /\ pc = "idle"
    /\ args \in [a : IsinNames, vals : Lists(IsinNames, MaxVals)]
    /\ cwd = <<>>
    /\ saved_dir = <<>>
    /\ calls = <<>>
    /\ raised = "none"
    /\ ret = None
    /\ rows = <<>>
    /\ rep_i = 0

NextIsin == CallIsin

SpecIsin == InitIsin /\ [][NextIsin]_vars

-----------------------------------------------------------------------------
(* Drivers of the constructor *)

\* a caller that constructs TestPackage objects from arbitrary arguments
InitCtor ==
    /\ conf = <<>>
    /\ nosetup = FALSE
    /\ notest = FALSE
    /\ driver = "ctor"
    /\ printed = None
    /\ testers = <<>>
    /\ env_ok = <<>>
    /\ cur = 0
    /\ method = "none"
    /\ pc = "idle"
    /\ args = NoArgs
    /\ cwd = <<>>
    /\ saved_dir = <<>>
    /\ calls = <<>>
    /\ raised = "none"
    /\ ret = None
    /\ rows = <<>>
    /\ rep_i = 0

NextCtor == Construct

SpecCtor == InitCtor /\ [][NextCtor]_vars

-----------------------------------------------------------------------------
(* Properties of setup(), run_tests(), gen_report() and cli() *)

\* the external calls of the executing setup(), by operation
CallsOf(op) == {k \in 1..Len(calls) : calls[k].op = op}

\* the step a call of setup() belongs to
StepOf(op) ==
    CASE op = "create_environment" -> "create"
      [] op = "pip_install_deps"   -> "deps"
      [] op = "pip_install_local"  -> "local"
      [] op \in {"run_update", "run_install_lower"} -> "apply"
      [] OTHER -> "none"

\* the steps of a non-skipped setup(extras, deps), in their order
StepsInOrder(a) ==
    <<"create">> \o (IF Truthy(a.deps) THEN <<"deps">> ELSE <<>>) \o <<"local", "apply">>

\* C1: setup() returns normally to its caller, whatever the run, the arguments
\* and the failures of the provisioner and of the installer commands.
C1_SetupNeverRaises == method = "setup" => raised = "none"

BuiltFrom(t, k) ==
    /\ t.envname = k
    /\ t.upgrade = conf[k].upgrade
    /\ t.lower = conf[k].lower
    /\ t.package_dir = conf[k].package_dir

\* C3: when the loop of cli() is over (the report is being made, cli() is done
\* or an exception has left it), every environment of the configuration has
\* been constructed and set up, in configuration order.
C3_EveryEnvDriven ==
    driver \in {"report", "done", "raised"} =>
        /\ Len(testers) = Len(conf)
        /\ \A k \in 1..Len(testers) : BuiltFrom(testers[k], k)

\* C4: run_tests() on a run whose setup_status is false raises, launches no
\* process, and changes neither status nor anything else of the run.
C4_RunTestsNeedsSetup ==
    [][(pc = "idle" /\ method' = "run_tests" /\ ~testers[cur'].setup_status) =>
         /\ raised' = "RuntimeError"
         /\ pc' = "idle"
         /\ calls' = <<>>
         /\ ret' = None
         /\ testers' = testers
         /\ cwd' = cwd]_vars

\* run_tests() has raised on a run that had passed its tests before a later
\* setup() failed: status is still true
C4_Witness ==
    /\ method = "run_tests"
    /\ raised = "RuntimeError"
    /\ ~testers[1].setup_status
    /\ testers[1].status

\* C5: gen_report, given runs of which some have setup_status false, returns
\* a table, and every environment whose setup failed has a row in it.
C5_ReportKeepsFailedRuns ==
    (method = "gen_report" /\ pc = "idle"
        /\ \E k \in 1..Len(testers) : ~testers[k].setup_status) =>
        /\ raised = "none"
        /\ \A k \in 1..Len(testers) :
              ~testers[k].setup_status =>
                  \E r \in 1..Len(Get(ret)) : Get(ret)[r].env = testers[k].envname

\* C6: cli() never ends with an exception, and when it is done it has printed
\* the report.
C6_CliCompletes ==
    /\ driver # "raised"
    /\ driver = "done" => ~IsNone(printed)

\* C7: whenever control is at the caller (before a method is entered, after it
\* returned or raised) and when setup() starts its first step, the working
\* directory is the directory the process started in.
C7_CwdRestored == pc \in {"idle", "create"} => cwd = <<>>

\* run_tests() has left its pushd block, entered for a package directory
\* other than ".", by an exception
C7_Witness ==
    /\ method = "run_tests"
    /\ pc = "idle"
    /\ raised = "FileNotFoundError"
    /\ testers[cur].package_dir = "pkg"
    /\ cwd = <<>>

\* C8: a setup() that has got past the local-package install and is over has
\* invoked exactly one of run_update and run_install_lower, once: run_update
\* with the upgrade list for a run constructed with upgrade, run_install_lower
\* with the lower list for a run constructed with lower.
C8_OneApplyByMode ==
    (method = "setup" /\ pc = "idle"
        /\ \E k \in CallsOf("pip_install_local") : calls[k].ok) =>
        LET t == testers[cur] IN
        IF ~IsNone(t.upgrade)
        THEN /\ Cardinality(CallsOf("run_update")) = 1
             /\ CallsOf("run_install_lower") = {}
             /\ \A k \in CallsOf("run_update") : calls[k].arg = Get(t.upgrade)
        ELSE /\ Cardinality(CallsOf("run_install_lower")) = 1
             /\ CallsOf("run_update") = {}
             /\ \A k \in CallsOf("run_install_lower") : calls[k].arg = Get(t.lower)

\* the calls of a non-skipped setup() follow the order of its steps, each
\* after a successful predecessor, with the arguments the step is given
OrderedSteps ==
    (method = "setup" /\ ~args.skip) =>
        /\ Len(calls) <= Len(StepsInOrder(args))
        /\ \A k \in 1..Len(calls) :
            /\ StepOf(calls[k].op) = StepsInOrder(args)[k]
            /\ k < Len(calls) => calls[k].ok
            /\ calls[k].op = "pip_install_deps" => calls[k].arg = Get(args.deps)
            /\ calls[k].op = "pip_install_local" =>
                  LET pkg == calls[k].arg[1] IN
                  /\ pkg[1] = "."
                  /\ IF Truthy(args.extras)
                     THEN /\ pkg[2] = "[" /\ pkg[Len(pkg)] = "]"
                          /\ SubSeq(pkg, 3, 2 + Len(Get(args.extras)[1])) = Get(args.extras)[1]
                     ELSE Len(pkg) = 1

\* setup_status turns from false to true in a non-skipped setup() only with
\* the successful call of the last step
TrueOnlyAfterLastStep ==
    (method' = "setup" /\ ~args'.skip /\ cur' \in 1..Len(testers)
        /\ ~testers[cur'].setup_status /\ testers'[cur'].setup_status) =>
        /\ Len(calls') = Len(StepsInOrder(args'))
        /\ StepOf(calls'[Len(calls')].op) = "apply"
        /\ calls'[Len(calls')].ok
        /\ pc' = "idle"

\* C9: a non-skipped setup() runs create, deps (only when supplied), local
\* package (with the extras selector when supplied), upgrade-or-lower, in this
\* order, each after the previous one succeeded; setup_status becomes true
\* only after the last step has succeeded.
C9_StepsInOrder == []OrderedSteps /\ [][TrueOnlyAfterLastStep]_vars

\* a setup() with deps and extras has succeeded through all four steps
C9_Witness ==
    /\ method = "setup"
    /\ pc = "idle"
    /\ Truthy(args.deps)
    /\ Truthy(args.extras)
    /\ Len(calls) = 4
    /\ testers[cur].setup_status

\* C10: setup(skip=True) returns at once with setup_status true; it makes no
\* external call and changes neither the working directory, nor the
\* environments on disk, nor any other field of the run.
C10_SkipOnlySetsStatus ==
    [][(pc = "idle" /\ method' = "setup" /\ args'.skip) =>
         /\ pc' = "idle"
         /\ raised' = "none"
         /\ calls' = <<>>
         /\ cwd' = cwd
         /\ env_ok' = env_ok
         /\ testers' = [testers EXCEPT ![cur'].setup_status = TRUE]]_vars

\* setup(skip=True) has returned on a run for which no environment exists
C10_Witness ==
    /\ method = "setup"
    /\ args.skip
    /\ pc = "idle"
    /\ testers[cur].setup_status
    /\ ~EnvAt(cur, <<>>)
    /\ calls = <<>>

-----------------------------------------------------------------------------
(* Properties of the constructor *)

\* C11: a construction with both upgrade and lower, or with neither, raises
\* and yields no object (the caller keeps what it had); with exactly one of
\* them it returns an object that
\* holds the given list, has the other one None, and has setup_status and
\* status false.
C11_CtorExactlyOne ==
    [][method' = "__init__" =>
         IF IsNone(args'.upgrade) = IsNone(args'.lower)
         THEN /\ raised' # "none"
              /\ testers' = testers
         ELSE /\ raised' = "none"
              /\ Len(testers') = 1
              /\ LET t == testers'[1] IN
                    /\ t.upgrade = args'.upgrade
                    /\ t.lower = args'.lower
                    /\ IsNone(t.upgrade) # IsNone(t.lower)
                    /\ ~t.setup_status
                    /\ ~t.status]_vars

\* after an object was constructed, a construction with both lists (the
\* upgrade list being empty) has raised and left the caller's object as it was
C11_Witness ==
    /\ method = "__init__"
    /\ raised = "ValueError"
    /\ args.upgrade = Some(<<>>)
    /\ ~IsNone(args.lower)
    /\ Len(testers) = 1

-----------------------------------------------------------------------------
(* Properties of run_tests() and of the loop's use of it *)

\* C12: a run_tests() on a run whose setup_status is true, and whose
\* environment exists where setup() creates it (under the directory the
\* process started in), launches the test process once, returns its exit code
\* and sets status to true exactly when that code is 0.
C12_RunTestsResult ==
    (method = "run_tests" /\ pc = "idle"
        /\ testers[cur].setup_status /\ EnvAt(cur, <<>>)) =>
        /\ raised = "none"
        /\ Len(calls) = 1
        /\ calls[1].op = "popen_tests"
        /\ ret = Some(calls[1].arg[2])
        /\ testers[cur].status = (Get(ret) = 0)

\* the loop enters run_tests() only from a setup() of the same environment
\* that returned with setup_status true, and only without --notest
TestsOnlyAfterGoodSetup ==
    (driver' = "tests" /\ driver # "tests") =>
        /\ driver = "setup" /\ method = "setup" /\ pc = "idle" /\ raised = "none"
        /\ ~notest
        /\ method' = "run_tests"
        /\ cur' = cur /\ cur = Len(testers)
        /\ testers[cur].setup_status

\* an environment whose setup() is over with setup_status false is left as
\* it is for the rest of the loop
FailedSetupIsTerminal ==
    \A k \in 1..Len(testers) :
        (~testers[k].setup_status /\ ~(cur = k /\ method = "setup" /\ pc # "idle")) =>
            testers'[k] = testers[k]

\* C13: cli() calls run_tests() on an environment only after its setup()
\* returned with setup_status true and only without --notest; an environment
\* whose setup failed is not touched again and has status false; run_tests()
\* never raises its precondition error in the loop.
C13_LoopGuardsTests ==
    /\ [](method = "run_tests" => raised # "RuntimeError")
    /\ [](\A k \in 1..Len(testers) : ~testers[k].setup_status => ~testers[k].status)
    /\ [][TestsOnlyAfterGoodSetup /\ FailedSetupIsTerminal]_vars

\* the loop has gone past an environment whose setup failed, not testing it,
\* and is testing the next one
C13_Witness ==
    /\ driver = "tests"
    /\ Len(testers) = 2
    /\ ~testers[1].setup_status
    /\ testers[2].setup_status
    /\ pc = "popen"

-----------------------------------------------------------------------------
(* Properties of gen_report() and of the package queries *)

\* what a gen_report() call does with its output type, at its entry
OutputTypeChecked ==
    (pc = "idle" /\ method' = "gen_report") =>
        IF args'.output_type \notin {"rst", "github"}
        THEN /\ raised' = "ValueError"
             /\ \E k \in DOMAIN InvalidOutputMessage(args'.output_type) :
                    InvalidOutputMessage(args'.output_type)[k] = args'.output_type
             /\ pc' = "idle"
             /\ calls' = <<>>
             /\ rows' = <<>>
             /\ ret' = None
        ELSE /\ raised' = "none"
             /\ pc' # "idle"

\* C14: gen_report with an output type other than "rst" and "github" raises
\* ValueError, with the given type in its message, at once: no environment is
\* queried, no row is collected and nothing is returned; with "rst" or
\* "github" it never raises ValueError.
C14_BadOutputType ==
    /\ [][OutputTypeChecked]_vars
    /\ []((method = "gen_report" /\ args.output_type \in {"rst", "github"}) =>
              raised # "ValueError")

\* gen_report has refused a bad output type for a run that was set up
C14_Witness ==
    /\ method = "gen_report"
    /\ args.output_type = "bad"
    /\ raised = "ValueError"
    /\ testers[1].setup_status
    /\ calls = <<>>
    /\ IsNone(ret)

\* the packages the queries resolve for tester k during the last gen_report:
\* upgraded_packages() on the listing its pip list call obtained, or
\* lowered_packages()
ResolvedFor(k) ==
    IF IsNone(testers[k].upgrade) THEN LoweredPackages(testers[k])
    ELSE LET j == CHOOSE j \in 1..Len(calls) : calls[j].op = "pip_list" /\ calls[j].env = k
         IN  UpgradedPackages(testers[k], calls[j].arg)

\* the rows of a table that belong to environment k, in the table's order
RowsFor(table, k) == LET Mine(row) == row.env = k IN SelectSeq(table, Mine)

SameTok(x, y) ==
    \/ x = y
    \/ {x, y} \subseteq {"-", "_"}
    \/ {x, y} \subseteq {"pandas", "Pandas"}
    \/ {x, y} \subseteq {"numpy", "NumPy"}
    \/ {x, y} \subseteq {"scikit", "Scikit"}

SameName(a, b) == Len(a) = Len(b) /\ \A k \in 1..Len(a) : SameTok(a[k], b[k])

\* a requirement string up to its first '['
BeforeBracket(str) ==
    IF \E k \in 1..Len(str) : str[k] = "["
    THEN SubSeq(str, 1, (CHOOSE k \in 1..Len(str) :
                            str[k] = "[" /\ \A j \in 1..(k - 1) : str[j] # "[") - 1)
    ELSE str

\* C16: upgraded_packages() of a lower-mode run returns the empty list and
\* makes no call; of an upgrade-mode run whose environment answers, it
\* returns the entries of the pip listing, in the listing's order, whose name
\* is that of some upgrade entry without its [extras] suffix, up to case and
\* to '-' against '_'.
C16_UpgradedPackages ==
    (method = "upgraded_packages" /\ raised = "none") =>
        LET t == testers[cur] IN
        IF IsNone(t.upgrade)
        THEN ret = Some(<<>>) /\ calls = <<>>
        ELSE /\ Len(calls) = 1
             /\ calls[1].op = "pip_list"
             /\ LET Wanted(pkg) ==
                        \E k \in 1..Len(Get(t.upgrade)) :
                            SameName(pkg.name, BeforeBracket(Get(t.upgrade)[k]))
                IN  ret = Some(SelectSeq(calls[1].arg, Wanted))

\* upgraded_packages() of a run upgrading Pandas[perf] has picked pandas out
\* of a listing of two packages
C16_Witness ==
    /\ method = "upgraded_packages"
    /\ raised = "none"
    /\ testers[cur].upgrade = Some(<< <<"Pandas", "[", "perf", "]">> >>)
    /\ Len(calls[1].arg) = 2
    /\ ret = Some(<< [name |-> <<"pandas">>, version |-> <<"3.0">>] >>)

-----------------------------------------------------------------------------
(* Properties of upgrade_requirements() *)

\* the k-th declared requirement of the call, its clauses, and whether and
\* to which version it was upgraded (the last entry listed for its name)
Declared(k) == args.pkgs[k]
OrigClauses(k) == {Declared(k).specs[j] : j \in 1..Len(Declared(k).specs)}
IsUpgraded(k) ==
    \E j \in 1..Len(args.upgraded_packages) :
        args.upgraded_packages[j].name = Declared(k).name
NewVersion(k) ==
    LET listed == {j \in 1..Len(args.upgraded_packages) :
                      args.upgraded_packages[j].name = Declared(k).name}
        last == CHOOSE j \in listed : \A i \in listed : i <= j
    IN  args.upgraded_packages[last].version
HasPin(k) == \E c \in OrigClauses(k) : c.op = "=="

\* the constraint the call returned for the k-th requirement
NewClauses(k) == Get(ret)[k].specifier

\* C18: in what upgrade_requirements returns for an upgraded requirement
\* without `==` clause, every `<=` clause has become `<= new version`, and
\* every `>=`, `>` and `!=` clause of the original is there unchanged.
C18_CeilingReplaced ==
    (method = "upgrade_requirements" /\ raised = "none") =>
        \A k \in 1..Len(args.pkgs) :
            (IsUpgraded(k) /\ ~HasPin(k)) =>
                /\ \A c \in OrigClauses(k) :
                      c.op \in {">=", ">", "!="} => c \in NewClauses(k)
                /\ (\E c \in OrigClauses(k) : c.op = "<=") =>
                      [op |-> "<=", version |-> NewVersion(k)] \in NewClauses(k)
                /\ \A c \in NewClauses(k) : c.op = "<=" => c.version = NewVersion(k)

\* pandas>=1,<=1 next to numpy>=1, pandas upgraded to 2: pandas>=1,<=2
C18_Witness ==
    /\ method = "upgrade_requirements"
    /\ raised = "none"
    /\ args.pkgs = <<OtherRequirement,
                     [name |-> <<"pandas">>,
                      specs |-> <<[op |-> ">=", version |-> 1],
                                  [op |-> "<=", version |-> 1]>>]>>
    /\ args.upgraded_packages = <<[name |-> <<"pandas">>, version |-> 2]>>
    /\ NewClauses(2) = {[op |-> ">=", version |-> 1], [op |-> "<=", version |-> 2]}

\* C19: in what upgrade_requirements returns for an upgraded requirement
\* without `==` clause, every `< V` clause has become `!= V`, no `<` clause
\* is left, and `<= new version` is part of the constraint.
C19_StrictBecomesExclusion ==
    (method = "upgrade_requirements" /\ raised = "none") =>
        \A k \in 1..Len(args.pkgs) :
            (IsUpgraded(k) /\ ~HasPin(k)) =>
                /\ \A c \in OrigClauses(k) :
                      c.op = "<" =>
                          /\ [op |-> "!=", version |-> c.version] \in NewClauses(k)
                          /\ [op |-> "<=", version |-> NewVersion(k)] \in NewClauses(k)
                /\ \A c \in NewClauses(k) : c.op # "<"

\* pandas<2, pandas upgraded to 1: pandas!=2,<=1
C19_Witness ==
    /\ method = "upgrade_requirements"
    /\ raised = "none"
    /\ args.pkgs = <<[name |-> <<"pandas">>,
                      specs |-> <<[op |-> "<", version |-> 2]>>]>>
    /\ args.upgraded_packages = <<[name |-> <<"pandas">>, version |-> 1]>>
    /\ NewClauses(1) = {[op |-> "!=", version |-> 2], [op |-> "<=", version |-> 1]}

\* C20: upgrade_requirements returns, and for an upgraded requirement with
\* an `== V` clause the constraint it returns is exactly `>= V` with
\* `<= new version`, whatever the other clauses and their order.
C20_PinBecomesRange ==
    method = "upgrade_requirements" =>
        \A k \in 1..Len(args.pkgs) :
            (IsUpgraded(k) /\ HasPin(k)) =>
                /\ raised = "none"
                /\ \E c \in OrigClauses(k) :
                      /\ c.op = "=="
                      /\ NewClauses(k) = {[op |-> ">=", version |-> c.version],
                                           [op |-> "<=", version |-> NewVersion(k)]}

\* the orders in which a specifier set can be iterated
OrdersOf(specifier) ==
    {l \in [1..Cardinality(specifier) -> specifier] :
        \A a, b \in 1..Cardinality(specifier) : a # b => l[a] # l[b]}

\* the requirement lists that parsing the returned lines can give
ParsedAgain(lines) ==
    {f \in [1..Len(lines) ->
                UNION {[name : {lines[k].name}, specs : OrdersOf(lines[k].specifier)] :
                        k \in 1..Len(lines)}] :
        \A k \in 1..Len(lines) :
            f[k].name = lines[k].name /\ f[k].specs \in OrdersOf(lines[k].specifier)}

\* C21: upgrade_requirements returns for every constraint built from the six
\* operators, and applying it to what it returned, with the same upgraded
\* packages, returns the same lines again.
C21_Idempotent ==
    method = "upgrade_requirements" =>
        /\ raised = "none"
        /\ \A again \in ParsedAgain(Get(ret)) :
              LET out == UpgradeRequirements(again, args.upgraded_packages)
              IN  out.raised = "none" /\ out.lines = Get(ret)

\* C22: upgrade_requirements returns one line per declared requirement, in
\* the declared order; the line of a requirement that is not among the
\* upgraded packages has its constraint unchanged, and the line of every
\* requirement is the one the call returns for that requirement alone.
C22_OthersUntouched ==
    method = "upgrade_requirements" =>
        \A k \in 1..Len(args.pkgs) :
            LET alone == UpgradeRequirements(<<Declared(k)>>, args.upgraded_packages) IN
            /\ ~IsUpgraded(k) =>
                  /\ raised = "none"
                  /\ Len(Get(ret)) = Len(args.pkgs)
                  /\ Get(ret)[k] = [name |-> Declared(k).name, specifier |-> OrigClauses(k)]
            /\ alone.raised = "none" =>
                  /\ raised = "none"
                  /\ Len(Get(ret)) = Len(args.pkgs)
                  /\ Get(ret)[k] = alone.lines[1]

-----------------------------------------------------------------------------
(* Properties of get_lower_bounds() *)

\* the k-th declared requirement of the call: its name with the extras
\* suffix, whether it has a `>=` clause, the version of the first one in
\* iteration order, and whether its name is requested
DeclaredName(k) ==
    LET r == args.requirements[k] IN
    IF IsNone(r.extras) THEN r.name
    ELSE r.name \o <<"[">> \o Get(r.extras)[1] \o <<"]">>
HasLowerBound(k) ==
    \E j \in 1..Len(args.requirements[k].specs) : args.requirements[k].specs[j].op = ">="
LowerBoundOf(k) ==
    LET specs == args.requirements[k].specs
        first == CHOOSE j \in 1..Len(specs) :
                    specs[j].op = ">=" /\ \A i \in 1..(j - 1) : specs[i].op # ">="
    IN  specs[first].version
IsRequested(k) ==
    \E j \in 1..Len(args.lower) : SameName(DeclaredName(k), args.lower[j])
Qualifies(k) == HasLowerBound(k) /\ IsRequested(k)

\* the indices among 1..n that satisfy a test, in ascending order
Ascending(n, Test(_)) == SelectSeq([k \in 1..n |-> k], Test)

FirstOfName(k) ==
    \A j \in 1..(k - 1) : ~(HasLowerBound(j) /\ DeclaredName(j) = DeclaredName(k))
LastOfName(k) ==
    CHOOSE j \in k..Len(args.requirements) :
        /\ HasLowerBound(j) /\ DeclaredName(j) = DeclaredName(k)
        /\ \A i \in (j + 1)..Len(args.requirements) :
              ~(HasLowerBound(i) /\ DeclaredName(i) = DeclaredName(k))
QualifiesFirst(k) == Qualifies(k) /\ FirstOfName(k)

NoBoundFor(requested) ==
    \A k \in 1..Len(args.requirements) :
        SameName(DeclaredName(k), requested) => ~HasLowerBound(k)

\* C24: get_lower_bounds does not raise; for a requested name without a
\* derivable lower bound it returns no line and has logged a warning naming
\* it, and the lines of the other requested names are returned.
C24_WarnsAndOmits ==
    method = "get_lower_bounds" =>
        /\ raised = "none"
        /\ \A j \in 1..Len(args.lower) :
              IF NoBoundFor(args.lower[j])
              THEN /\ \A l \in 1..Len(Get(ret)) : ~SameName(Get(ret)[l].name, args.lower[j])
                   /\ \E w \in 1..Len(calls) :
                         calls[w].op = "LOG.warning" /\ SameName(calls[w].arg, args.lower[j])
              ELSE \E l \in 1..Len(Get(ret)) : SameName(Get(ret)[l].name, args.lower[j])

\* C25: _isin_case_dashhyphen_ins(a, vals) returns true exactly when some
\* element of vals has the tokens of a up to letter case and to '-' against
\* '_'; in particular it returns false for a name that is the concatenation of
\* two elements of vals and for one that differs in another character.
C25_IsinExactlyNormalised ==
    method = "_isin_case_dashhyphen_ins" =>
        /\ raised = "none"
        /\ Get(ret) = (\E k \in 1..Len(args.vals) : SameName(args.a, args.vals[k]))
        /\ (/\ \E i, j \in 1..Len(args.vals) : args.a = args.vals[i] \o args.vals[j]
            /\ \A k \in 1..Len(args.vals) : args.a # args.vals[k])
           => Get(ret) = FALSE

\* "Scikit_learn" found among "pandas", "scikit-learn"
C25_Witness ==
    /\ method = "_isin_case_dashhyphen_ins"
    /\ args.a = <<"Scikit", "_", "learn">>
    /\ args.vals = << <<"pandas">>, <<"scikit", "-", "learn">> >>
    /\ Get(ret) = TRUE

\* C26: the commands issued for one environment within an operation
\* (environment creation, additional-dependency install, local-package
\* install, upgrade/lower application, test execution, package query) all
\* address the same base directory, and it is the .edgetest directory under
\* the directory the caller runs in.
C26_OneBaseDirectory ==
    \A a \in 1..Len(calls) :
        /\ calls[a].basedir = Basedir(<<>>)
        /\ \A b \in 1..Len(calls) :
              calls[a].env = calls[b].env => calls[a].basedir = calls[b].basedir

\* the step leaves the field f of every object as it was
KeepsSetupStatus ==
    \A k \in 1..Len(testers) : testers'[k].setup_status = testers[k].setup_status

KeepsStatus ==
    \A k \in 1..Len(testers) : testers'[k].status = testers[k].status

\* C27: no step of a setup() invocation changes status, no step before its
\* last one changes setup_status, and its last step is the one assignment of
\* setup_status (the invocation does not end by an exception before it); no
\* step of a run_tests() invocation changes setup_status, and one that passed
\* the precondition ends with the one assignment of status; the queries
\* upgraded_packages() and lowered_packages() change neither field.
C27_AssignedOnce ==
    [][ /\ method' = "setup" =>
              /\ KeepsStatus
              /\ pc' # "idle" => KeepsSetupStatus
              /\ pc' = "idle" => raised' = "none"
        /\ method' = "run_tests" =>
              /\ KeepsSetupStatus
              /\ pc' # "idle" => KeepsStatus
              /\ (pc = "popen" /\ pc' = "idle") => raised' = "none"
        /\ method' \in {"upgraded_packages", "lowered_packages"} =>
              KeepsSetupStatus /\ KeepsStatus
      ]_vars

\* the versions that occur in requirement lines (specs or specifier sets)
VersionsOfSpecs(pkgs) ==
    UNION {{pkgs[k].specs[j].version : j \in 1..Len(pkgs[k].specs)} : k \in 1..Len(pkgs)}

VersionsOfLines(lines) ==
    UNION {{c.version : c \in lines[k].specifier} : k \in 1..Len(lines)}

\* the file a write of the export rewrites
SourceOf(target) ==
    IF target = "config" THEN args.config.dependencies ELSE Some(args.requirements)

\* the versions `uv pip list` reported to the export for environment i
ListedFor(i) ==
    UNION {{calls[k].arg[j].version : j \in 1..Len(calls[k].arg)} :
            k \in {n \in 1..Len(calls) : calls[n].op = "pip_list" /\ calls[n].env = i}}

\* C28: a file is written only with export requested and for the last
\* environment of the list, whose setup_status and status are true; the text
\* written holds no version other than those of the file it rewrites and
\* those the last environment reported; and status is true only from a test
\* process of that environment that exited with code 0.
C28_ExportOnlyFromPassedRun ==
    /\ [](\A k \in 1..Len(calls) : calls[k].op = "write" =>
            LET last == Len(testers) IN
            /\ args.export
            /\ last > 0
            /\ testers[last].setup_status /\ testers[last].status
            /\ calls[k].env = last
            /\ ~IsNone(calls[k].arg[2]) =>
                  VersionsOfLines(Get(calls[k].arg[2])) \subseteq
                      VersionsOfSpecs(Get(SourceOf(calls[k].arg[1]))) \cup ListedFor(last))
    /\ [][\A k \in 1..Len(testers') :
              (testers'[k].status /\ (k <= Len(testers) => ~testers[k].status)) =>
                  /\ Len(calls') > 0
                  /\ calls'[Len(calls')].op = "popen_tests"
                  /\ calls'[Len(calls')].env = k
                  /\ calls'[Len(calls')].arg[2] = 0]_vars

\* two environments, the first failed and the last passed: the requirements
\* file is rewritten with the version the last environment reported
C28_Witness ==
    /\ driver = "exit"
    /\ Len(testers) = 2
    /\ ~testers[1].setup_status
    /\ testers[2].status
    /\ \E k \in 1..Len(calls) :
          /\ calls[k].op = "write"
          /\ calls[k].arg[1] = "requirements"
          /\ <<"3.0">> \in VersionsOfLines(Get(calls[k].arg[2]))

\* version v satisfies the clause c
Satisfies(v, c) ==
    CASE c.op = "<=" -> v <= c.version
      [] c.op = "<"  -> v < c.version
      [] c.op = "==" -> v = c.version
      [] c.op = ">=" -> v >= c.version
      [] c.op = ">"  -> v > c.version
      [] c.op = "!=" -> v # c.version

\* C29: for an upgraded requirement whose constraint had a `<=`, `<` or `==`
\* clause, upgrade_requirements returns a constraint that contains
\* `<= new version`, contains no `<` and no `==` clause, and whose clauses
\* that were not in the original are all satisfied by the new version.
C29_KeepsValidatedVersion ==
    method = "upgrade_requirements" =>
        \A k \in 1..Len(args.pkgs) :
            (IsUpgraded(k) /\ \E c \in OrigClauses(k) : c.op \in {"<=", "<", "=="}) =>
                /\ raised = "none"
                /\ [op |-> "<=", version |-> NewVersion(k)] \in NewClauses(k)
                /\ \A c \in NewClauses(k) : c.op \notin {"<", "=="}
                /\ \A c \in NewClauses(k) \ OrigClauses(k) : Satisfies(NewVersion(k), c)

\* the entry of the upgraded list that counts for the k-th requirement when
\* names are compared up to letter case and '-' against '_': the last one
CountsFor(j, k) ==
    /\ SameName(args.upgraded_packages[j].name, Declared(k).name)
    /\ \A i \in (j + 1)..Len(args.upgraded_packages) :
          ~SameName(args.upgraded_packages[i].name, Declared(k).name)

\* C30: when upgrade_requirements returns, a requirement with a `<=` clause
\* and no `==` clause whose name equals that of a reported package up to
\* letter case and '-' against '_' has `<= reported version` in its result.
C30_SameNameEquivalence ==
    (method = "upgrade_requirements" /\ raised = "none") =>
        \A k \in 1..Len(args.pkgs) : \A j \in 1..Len(args.upgraded_packages) :
            (/\ CountsFor(j, k)
             /\ ~HasPin(k)
             /\ \E c \in OrigClauses(k) : c.op = "<=") =>
                [op |-> "<=", version |-> args.upgraded_packages[j].version]
                    \in NewClauses(k)

====
